---- MODULE Spec2Model ----
(***************************************************************************)
(* Model of src/lib/restapi/auth.ts: the Express middleware stages that    *)
(* authenticate a request (session-users class locally, everything else    *)
(* through Auth0) and authorise it (tenant match, role checks, managed     *)
(* tenants, project ownership / crowd-sourced access).                     *)
(*                                                                         *)
(* One request is followed through a chain of stages.  Each action is one  *)
(* middleware function run to completion (awaits included: requests share  *)
(* no state, so nothing interleaves inside a handler).                     *)
(***************************************************************************)
EXTENDS Naturals, Sequences, FiniteSets, TLC

\* ------------------------------------------------------------------ bounds

\* Longest chain of middleware stages that is followed for one request.
MaxChain == 3

\* ------------------------------------------------------------- value sets

\* JavaScript's undefined, as a value of the string-typed fields below.
Undefined == "undefined"

\* sessionusers.CLASS_NAME: the class whose users are authenticated locally.
\* auth.ts only compares with it and copies it; the string stands for
\* whatever value the sessionusers module gives it.
CLASS_NAME == "session-users"

Tenants == {CLASS_NAME, "classA", "classB"}
Members == {"u1", "u2"}
Roles == {"student", "supervisor", "siteadmin"}
ProjectIds == {"p1"}

\* Token strings a caller may present.  What jwtDecode makes of each is
\* given by jwtDecode below.
TokenStrings == {"jwt.u1", "jwt.u2", "jwt.noid", "jwt.null", "jwt.num", "garbage"}

\* The Authorization header as the caller sent it: a string, written here
\* as the sequence of its pieces with " " standing for one space character.
HeaderValues ==
    { <<>>,                                  \* empty string
      <<"Bearer">>,                          \* scheme only
      <<"Bearer", " ", " ", "jwt.u1">>,      \* two spaces
      <<"Basic", " ", "jwt.u1">>,
      <<"bearer", " ", "jwt.u1">> }
    \cup { <<"Bearer", " ", t>> : t \in TokenStrings }

Headers ==
    { [has |-> FALSE, authorization |-> <<>>] }
    \cup { [has |-> TRUE, authorization |-> h] : h \in HeaderValues }

\* String.prototype.split(' '): the pieces between the spaces; two adjacent
\* spaces give an empty piece.
RECURSIVE SplitFrom(_, _, _)
SplitFrom(s, i, cur) ==
    IF i > Len(s) THEN <<cur>>
    ELSE IF s[i] = " " THEN <<cur>> \o SplitFrom(s, i + 1, "")
    ELSE SplitFrom(s, i + 1, s[i])

split(s) == SplitFrom(s, 1, "")

\* arr[i] with JavaScript's 0-based index; undefined beyond the end.
Index(arr, i) == IF i + 1 <= Len(arr) THEN arr[i + 1] ELSE Undefined

\* ------------------------------------------------------------ records

NoSession == [kind |-> "none", id |-> Undefined, token |-> Undefined]

\* req.user when nothing has attached a principal.
NoUser ==
    [ present     |-> FALSE,
      sub         |-> Undefined,
      hasMeta     |-> FALSE,           \* req.user.app_metadata is set
      role        |-> Undefined,       \* app_metadata.role
      tenant      |-> Undefined,       \* app_metadata.tenant
      claimRole   |-> Undefined,       \* user['https://.../api/role']
      claimTenant |-> Undefined,       \* user['https://.../api/tenant']
      session     |-> NoSession ]      \* user.session

\* req.project when nothing has attached a project.
NoProject ==
    [ present |-> FALSE, id |-> Undefined, classid |-> Undefined,
      userid |-> Undefined, isCrowdSourced |-> FALSE ]

\* Objects.Project rows the project store may hold for an id.
Projects(projectid) ==
    { [ present |-> TRUE, id |-> projectid, classid |-> c,
        userid |-> u, isCrowdSourced |-> b ] :
          c \in Tenants, u \in Members, b \in BOOLEAN }

\* ------------------------------------------------------------- state

VARIABLES
    params,      \* req.params: classid, studentid, projectid
    headers,     \* req.headers.authorization
    user,        \* req.user
    project,     \* req.project
    res,         \* the response written, "none" while nothing is written
    err,         \* the error handed to next(err), "none" while there is none
    chain,       \* the stages run so far, in order
    nexts,       \* how many times next() has been called with no argument
    via,         \* which verifier authenticate handed the request to
    auth0,       \* what the Auth0 verifier did, "none" if it was not invoked
    session,     \* the checkSessionToken call made and what it returned
    fetched,     \* what store.getProject returned to the last project stage
    policy       \* what store.getClassTenant answered to the last ensureUnmanaged

vars == <<params, headers, user, project, res, err, chain, nexts, via,
          auth0, session, fetched, policy>>

NoSessionCall ==
    [called |-> FALSE, studentid |-> Undefined, token |-> Undefined,
     result |-> "none"]

Init ==
    /\ params \in [classid : Tenants, studentid : Members, projectid : ProjectIds]
    /\ headers \in Headers
    /\ user = NoUser
    /\ project = NoProject
    /\ res = "none"
    /\ err = "none"
    /\ chain = <<>>
    /\ nexts = 0
    /\ via = "none"
    /\ auth0 = "none"
    /\ session = NoSessionCall
    /\ fetched = [answer |-> "none", project |-> NoProject]
    /\ policy = "none"

\* The request is still travelling down the chain.
Live == res = "none" /\ err = "none" /\ Len(chain) < MaxChain

\* ------------------------------------------------- external collaborators

\* jwt-decode applied to an untrusted token string: it throws on anything
\* that is not a string with a decodable payload part; otherwise it returns
\* whatever JSON value the payload holds (no signature is verified).
jwtDecode(t) ==
    CASE t = "jwt.u1"   -> [kind |-> "object", id |-> "u1", token |-> "s1"]
      [] t = "jwt.u2"   -> [kind |-> "object", id |-> "u2", token |-> "s1"]
      [] t = "jwt.noid" -> [kind |-> "object", id |-> Undefined, token |-> "s2"]
      [] t = "jwt.null" -> [kind |-> "null", id |-> Undefined, token |-> Undefined]
      [] t = "jwt.num"  -> [kind |-> "primitive", id |-> Undefined, token |-> Undefined]
      [] OTHER          -> [kind |-> "throw", id |-> Undefined, token |-> Undefined]

\* Principals express-jwt may attach once Auth0's signature checks pass: the
\* token's claims, with the role and tenant under the namespaced keys, or
\* (for a token that already carries app_metadata) in structured form.
Auth0Users ==
    { [NoUser EXCEPT !.present = TRUE, !.sub = s,
                     !.claimRole = r, !.claimTenant = t] :
          s \in Members, r \in Roles \cup {Undefined}, t \in Tenants \cup {Undefined} }
    \cup
    { [NoUser EXCEPT !.present = TRUE, !.sub = s, !.hasMeta = TRUE,
                     !.role = r, !.tenant = t] :
          s \in Members, r \in Roles, t \in Tenants }

\* ------------------------------------------------------- authentication

\* The principal sessionusersAuthenticate builds for a verified session.
SessionPrincipal(decoded) ==
    [NoUser EXCEPT !.present = TRUE,
                   !.sub     = decoded.id,
                   !.hasMeta = TRUE,
                   !.role    = "student",
                   !.tenant  = CLASS_NAME,
                   !.session = decoded]

\* Mutant of SessionVerdict: the test of checkSessionToken's answer negated.
SessionVerdict_Negated(result) ==
    CASE result = "true"  -> "notAuthorised"
      [] result = "false" -> "next"
      [] OTHER            -> "fault"

\* Mutant of SessionVerdict: a failed checkSessionToken answered as a
\* rejection from the catch block.
SessionVerdict_SwallowsFault(result) ==
    CASE result = "true"  -> "next"
      [] OTHER            -> "notAuthorised"

\* What sessionusersAuthenticate does with checkSessionToken's answer.
SessionVerdict(result) ==
    CASE result = "true"  -> "next"
      [] result = "false" -> "notAuthorised"
      [] OTHER            -> "fault"

sessionusersAuthenticate(jwtTokenString) ==
    LET decoded == jwtDecode(jwtTokenString) IN
    IF decoded.kind = "throw"
    THEN \* jwtDecode threw: first catch block
         /\ res' = "notAuthorised"
         /\ UNCHANGED <<user, err, nexts, session, auth0>>
    ELSE IF decoded.kind = "null"
    THEN \* decoded.token on null throws inside the second try block
         /\ err' = "TypeError"
         /\ UNCHANGED <<user, res, nexts, session, auth0>>
    ELSE \E result \in {"true", "false", "fault"} :
         /\ UNCHANGED auth0
         /\ session' = [called    |-> TRUE,
                        studentid |-> params.studentid,
                        token     |-> decoded.token,
                        result    |-> result]
         /\ CASE SessionVerdict(result) = "next" ->
                   /\ user' = SessionPrincipal(decoded)
                   /\ nexts' = nexts + 1
                   /\ UNCHANGED <<res, err>>
              [] SessionVerdict(result) = "notAuthorised" ->
                   /\ res' = "notAuthorised"
                   /\ UNCHANGED <<user, err, nexts>>
              [] OTHER ->
                   /\ err' = "StoreError"
                   /\ UNCHANGED <<user, res, nexts>>

\* express-jwt configured for Auth0: on a verified token it sets req.user
\* and calls next(); otherwise it calls next(err) with an UnauthorizedError.
auth0Authenticate ==
    /\ UNCHANGED session
    /\ \/ /\ auth0' = "rejected"
          /\ err' = "UnauthorizedError"
          /\ UNCHANGED <<user, res, nexts>>
       \/ /\ headers.has
          /\ headers.authorization # <<>>
          /\ auth0' = "accepted"
          /\ user' \in Auth0Users
          /\ nexts' = nexts + 1
          /\ UNCHANGED <<res, err>>

\* Mutant of IsSessionRequest: any Bearer header takes the session branch,
\* whatever class the request is for.
IsSessionRequest_AnyClass(classid, hdrs) ==
    /\ hdrs.has
    /\ hdrs.authorization # <<>>
    /\ Index(split(hdrs.authorization), 0) = "Bearer"

\* The condition under which authenticate takes the session-users branch.
IsSessionRequest(classid, hdrs) ==
    /\ classid = CLASS_NAME
    /\ hdrs.has
    /\ hdrs.authorization # <<>>
    /\ Index(split(hdrs.authorization), 0) = "Bearer"

authenticate ==
    /\ Live
    /\ chain = <<>>
    /\ chain' = Append(chain, "authenticate")
    /\ IF IsSessionRequest(params.classid, headers)
       THEN /\ via' = "sessionusers"
            /\ sessionusersAuthenticate(Index(split(headers.authorization), 1))
       ELSE /\ via' = "auth0"
            /\ auth0Authenticate
    /\ UNCHANGED <<params, headers, project, fetched, policy>>

\* -------------------------------------------------------- authorisation

\* Mutant of getValuesFromToken: app_metadata rebuilt from the namespaced
\* claims on every call, the test for an existing app_metadata dropped.
getValuesFromToken_Overwrites(u) ==
    IF u.present
    THEN [u EXCEPT !.hasMeta = TRUE, !.role = u.claimRole, !.tenant = u.claimTenant]
    ELSE u

\* Mutant of getValuesFromToken: nothing is read from the claims.
getValuesFromToken_NoOp(u) == u

getValuesFromToken(u) ==
    IF u.present /\ ~u.hasMeta
    THEN [u EXCEPT !.hasMeta = TRUE, !.role = u.claimRole, !.tenant = u.claimTenant]
    ELSE u

\* Mutant of checkValidUserVerdict: a principal with no tenant at all is
\* let through (the comparison guarded by the tenant's presence).
checkValidUserVerdict_SkipsMissingTenant(u, classid) ==
    IF ~u.present \/ ~u.hasMeta THEN "notAuthorised"
    ELSE IF u.tenant # Undefined /\ u.tenant # classid THEN "forbidden"
    ELSE "next"

\* The response checkValidUser ends with, "next" when it calls next().
checkValidUserVerdict(u, classid) ==
    IF ~u.present \/ ~u.hasMeta THEN "notAuthorised"
    ELSE IF u.tenant # classid THEN "forbidden"
    ELSE "next"

\* Mutant of checkValidUser: the return before errors.forbidden /
\* errors.notAuthorised is missing, so next() is called after the response.
checkValidUser_FallsThrough ==
    /\ Live
    /\ chain' = Append(chain, "checkValidUser")
    /\ LET u == getValuesFromToken(user)
           v == checkValidUserVerdict(u, params.classid)
       IN  /\ user' = u
           /\ nexts' = nexts + 1
           /\ IF v = "next" THEN UNCHANGED res ELSE res' = v
    /\ UNCHANGED <<params, headers, project, err, via, auth0, session, fetched, policy>>

checkValidUser ==
    /\ Live
    /\ chain' = Append(chain, "checkValidUser")
    /\ LET u == getValuesFromToken(user)
           v == checkValidUserVerdict(u, params.classid)
       IN  /\ user' = u
           /\ IF v = "next"
              THEN nexts' = nexts + 1 /\ UNCHANGED res
              ELSE res' = v /\ UNCHANGED nexts
    /\ UNCHANGED <<params, headers, project, err, via, auth0, session, fetched, policy>>

\* Mutant of requireSupervisorVerdict: site administrators are let through.
requireSupervisorVerdict_AdminToo(u) ==
    IF ~u.present \/ ~u.hasMeta THEN "TypeError"
    ELSE IF u.role # "supervisor" /\ u.role # "siteadmin" THEN "supervisorOnly"
    ELSE "next"

\* The outcome of requireSupervisor; reading app_metadata.role of a request
\* with no user or no app_metadata throws, which Express hands to the error
\* handler.
requireSupervisorVerdict(u) ==
    IF ~u.present \/ ~u.hasMeta THEN "TypeError"
    ELSE IF u.role # "supervisor" THEN "supervisorOnly"
    ELSE "next"

requireSupervisor ==
    /\ Live
    /\ chain' = Append(chain, "requireSupervisor")
    /\ LET v == requireSupervisorVerdict(user)
       IN  CASE v = "next"      -> nexts' = nexts + 1 /\ UNCHANGED <<res, err>>
             [] v = "TypeError" -> err' = v /\ UNCHANGED <<res, nexts>>
             [] OTHER           -> res' = v /\ UNCHANGED <<err, nexts>>
    /\ UNCHANGED <<params, headers, user, project, via, auth0, session, fetched, policy>>

\* The outcome of requireSiteAdmin for the request as getValuesFromToken
\* left it; reading app_metadata.role without a user or app_metadata throws.
requireSiteAdminVerdict(u) ==
    IF ~u.present \/ ~u.hasMeta THEN "TypeError"
    ELSE IF u.role # "siteadmin" THEN "siteadminForbidden"
    ELSE "next"

requireSiteAdmin ==
    /\ Live
    /\ chain' = Append(chain, "requireSiteAdmin")
    /\ LET u == getValuesFromToken(user)
           v == requireSiteAdminVerdict(u)
       IN  /\ user' = u
           /\ CASE v = "next"      -> nexts' = nexts + 1 /\ UNCHANGED <<res, err>>
                [] v = "TypeError" -> err' = v /\ UNCHANGED <<res, nexts>>
                [] OTHER           -> res' = v /\ UNCHANGED <<err, nexts>>
    /\ UNCHANGED <<params, headers, project, via, auth0, session, fetched, policy>>

\* Mutant of ensureUnmanagedVerdict: a failed fetch answered as forbidden
\* from the catch block.
ensureUnmanagedVerdict_FaultForbidden(answer) ==
    CASE answer = "unmanaged" -> "next"
      [] OTHER                -> "managedForbidden"

\* What ensureUnmanaged does with store.getClassTenant's answer.
ensureUnmanagedVerdict(answer) ==
    CASE answer = "managed"   -> "managedForbidden"
      [] answer = "unmanaged" -> "next"
      [] OTHER                -> "fault"

ensureUnmanaged ==
    /\ Live
    /\ chain' = Append(chain, "ensureUnmanaged")
    /\ \E answer \in {"managed", "unmanaged", "fault"} :
         LET v == ensureUnmanagedVerdict(answer)
         IN  /\ policy' = answer
             /\ CASE v = "next"  -> nexts' = nexts + 1 /\ UNCHANGED <<res, err>>
                  [] v = "fault" -> err' = "StoreError" /\ UNCHANGED <<res, nexts>>
                  [] OTHER       -> res' = v /\ UNCHANGED <<err, nexts>>
    /\ UNCHANGED <<params, headers, user, project, via, auth0, session, fetched>>

\* ------------------------------------------------------- project access

\* Mutant of isOwner: the path's member-id is not compared.
isOwner_IgnoresPath(u, p, userid) ==
    IF ~u.present THEN Undefined
    ELSE IF p.userid = u.sub THEN "true"
    ELSE "false"

\* const isOwner = req.user && (project.userid === req.user.sub)
\*                          && (project.userid === userid);
\* undefined when there is no req.user, otherwise a boolean.
isOwner(u, p, userid) ==
    IF ~u.present THEN Undefined
    ELSE IF p.userid = u.sub /\ p.userid = userid THEN "true"
    ELSE "false"

\* Mutant of verifyProjectVerdict: the project's class is not compared with
\* the class of the path.
verifyProjectVerdict_NoClassCheck(u, p, classid, userid, isCrowdSourcedAllowed) ==
    IF ~p.present THEN "notFound"
    ELSE IF /\ isOwner(u, p, userid) = "false"
            /\ (~isCrowdSourcedAllowed \/ ~p.isCrowdSourced)
         THEN "forbidden"
    ELSE "next"

\* Mutant of verifyProjectVerdict: the class comparison made before the
\* test for a missing project.
verifyProjectVerdict_ClassFirst(u, p, classid, userid, isCrowdSourcedAllowed) ==
    IF p.classid # classid THEN "forbidden"
    ELSE IF ~p.present THEN "notFound"
    ELSE IF /\ isOwner(u, p, userid) = "false"
            /\ (~isCrowdSourcedAllowed \/ ~p.isCrowdSourced)
         THEN "forbidden"
    ELSE "next"

\* The outcome of verifyProjectAuth for what store.getProject resolved to:
\* a project row, or NoProject when there is no such project.
verifyProjectVerdict(u, p, classid, userid, isCrowdSourcedAllowed) ==
    IF ~p.present THEN "notFound"
    ELSE IF p.classid # classid THEN "forbidden"
    ELSE IF /\ isOwner(u, p, userid) = "false"
            /\ (~isCrowdSourcedAllowed \/ ~p.isCrowdSourced)
         THEN "forbidden"
    ELSE "next"

\* Mutant of verifyProjectAuth: the project is attached to the request as
\* soon as it is fetched, before the class and ownership tests.
verifyProjectAuth_AttachesFirst(isCrowdSourcedAllowed) ==
    \/ /\ fetched' = [answer |-> "fault", project |-> NoProject]
       /\ err' = "StoreError"
       /\ UNCHANGED <<project, res, nexts>>
    \/ \E p \in Projects(params.projectid) \cup {NoProject} :
         LET v == verifyProjectVerdict(user, p, params.classid,
                                       params.studentid, isCrowdSourcedAllowed)
         IN  /\ fetched' = [answer  |-> IF p.present THEN "found" ELSE "absent",
                            project |-> p]
             /\ project' = p
             /\ IF v = "next"
                THEN nexts' = nexts + 1 /\ UNCHANGED <<res, err>>
                ELSE res' = v /\ UNCHANGED <<err, nexts>>

verifyProjectAuth(isCrowdSourcedAllowed) ==
    \/ \* store.getProject rejects: catch block
       /\ fetched' = [answer |-> "fault", project |-> NoProject]
       /\ err' = "StoreError"
       /\ UNCHANGED <<project, res, nexts>>
    \/ \E p \in Projects(params.projectid) \cup {NoProject} :
         LET v == verifyProjectVerdict(user, p, params.classid,
                                       params.studentid, isCrowdSourcedAllowed)
         IN  /\ fetched' = [answer  |-> IF p.present THEN "found" ELSE "absent",
                            project |-> p]
             /\ IF v = "next"
                THEN /\ project' = p
                     /\ nexts' = nexts + 1
                     /\ UNCHANGED <<res, err>>
                ELSE /\ res' = v
                     /\ UNCHANGED <<project, err, nexts>>

verifyProjectOwner ==
    /\ Live
    /\ chain' = Append(chain, "verifyProjectOwner")
    /\ verifyProjectAuth(FALSE)
    /\ UNCHANGED <<params, headers, user, via, auth0, session, policy>>

verifyProjectAccess ==
    /\ Live
    /\ chain' = Append(chain, "verifyProjectAccess")
    /\ verifyProjectAuth(TRUE)
    /\ UNCHANGED <<params, headers, user, via, auth0, session, policy>>

\* ---------------------------------------------------------- specification

Next ==
    \/ authenticate
    \/ checkValidUser
    \/ requireSupervisor
    \/ requireSiteAdmin
    \/ ensureUnmanaged
    \/ verifyProjectOwner
    \/ verifyProjectAccess

Spec == Init /\ [][Next]_vars

\* ------------------------------------------------------------ vocabulary

\* The stage that ran last.
Ran(stage) == chain # <<>> /\ chain[Len(chain)] = stage

\* The stage that ran last called next(): every stage run so far did.
Passed == res = "none" /\ err = "none" /\ nexts = Len(chain)

RanProjectStage == Ran("verifyProjectOwner") \/ Ran("verifyProjectAccess")

\* The last project stage got a project row back from the store.
Found == fetched.answer = "found"

\* The Authorization header is present and its scheme word is Bearer.
BearerHeader ==
    /\ headers.has
    /\ headers.authorization # <<>>
    /\ headers.authorization[1] = "Bearer"

\* The principal is the owner of the fetched project and addresses the
\* owner's own member-id path segment.
OwnerOnOwnPath ==
    /\ user.present
    /\ fetched.project.userid = user.sub
    /\ fetched.project.userid = params.studentid

\* ------------------------------------------------------------------- C1

\* C1: in verifyProjectOwner and verifyProjectAccess alike, a project whose
\* classid differs from the classid of the request path ends in the
\* forbidden response and next() is not called, whoever the principal is
\* and whatever isCrowdSourced says.
C1_TenantIsolation ==
    (RanProjectStage /\ Found /\ fetched.project.classid # params.classid)
        => (res = "forbidden" /\ err = "none" /\ nexts < Len(chain))

\* The true owner, on their own path member-id, reaches a crowd-sourced
\* project of theirs through another class's path.
C1_Witness ==
    /\ Ran("verifyProjectAccess") /\ Found
    /\ fetched.project.classid # params.classid
    /\ OwnerOnOwnPath
    /\ fetched.project.isCrowdSourced
    /\ res = "forbidden"

\* ------------------------------------------------------------------- C2

\* C2: verifyProjectOwner, for a project of the requested class, calls
\* next() only when a principal is present, owns the project and addresses
\* the owner's member-id; every other request, one without a principal
\* included, ends in the forbidden response.
C2_OwnerOnly ==
    (Ran("verifyProjectOwner") /\ Found /\ fetched.project.classid = params.classid)
        => /\ Passed <=> OwnerOnOwnPath
           /\ ~OwnerOnOwnPath => res = "forbidden"

\* ------------------------------------------------------------------- C3

\* C3: a request for the session-users class whose Authorization header is
\* missing or is not a Bearer header ends in the not-authorised response and
\* is never handed to the Auth0 verifier.
C3_HardBranch ==
    (Ran("authenticate") /\ params.classid = CLASS_NAME /\ ~BearerHeader)
        => (res = "notAuthorised" /\ via # "auth0")

\* ------------------------------------------------------------------- C4

\* C4: a request for any class other than session-users is handed to the
\* Auth0 verifier only: checkSessionToken is never consulted, and a
\* principal is attached (and next() called) only if Auth0 accepted.
C4_ExternalOnly ==
    (chain # <<>> /\ chain[1] = "authenticate" /\ params.classid # CLASS_NAME)
        => /\ via = "auth0"
           /\ ~session.called
           /\ user.session = NoSession
           /\ user.present => auth0 = "accepted"
           /\ auth0 # "accepted" => (nexts = 0 /\ ~user.present)

\* A token that decodes to a session payload is presented as a Bearer header
\* on another class, and Auth0 rejects it.
C4_Witness ==
    /\ Ran("authenticate")
    /\ params.classid = "classA"
    /\ headers.authorization = <<"Bearer", " ", "jwt.u1">>
    /\ auth0 = "rejected"
    /\ ~user.present

\* ------------------------------------------------------------------- C5

\* C5: for the session-users class with a Bearer header, a principal is
\* attached and next() called exactly when checkSessionToken, asked about
\* the path's studentid and the decoded token, answered true; the principal
\* is a student of the session-users class whose sub is decoded.id and whose
\* session is the decoded payload.
C5_SessionSuccess ==
    (Ran("authenticate") /\ params.classid = CLASS_NAME /\ BearerHeader)
        => LET decoded == jwtDecode(Index(split(headers.authorization), 1))
           IN  /\ Passed <=> (session.called /\ session.result = "true")
               /\ user.present <=> Passed
               /\ session.called =>
                     /\ session.studentid = params.studentid
                     /\ session.token = decoded.token
               /\ Passed =>
                     /\ user.role = "student"
                     /\ user.tenant = CLASS_NAME
                     /\ user.hasMeta
                     /\ user.sub = decoded.id
                     /\ user.session = decoded
                     /\ user.session.kind # "none"

\* A session verified for path member u1 with a payload that names u2.
C5_Witness ==
    /\ Ran("authenticate") /\ params.classid = CLASS_NAME
    /\ headers.authorization = <<"Bearer", " ", "jwt.u2">>
    /\ params.studentid = "u1"
    /\ session.result = "true"
    /\ Passed
    /\ user.sub = "u2"

\* ------------------------------------------------------------------- C6

\* The tenant a principal asserts: app_metadata.tenant when it is set, the
\* namespaced tenant claim otherwise.
PrincipalTenant(u) == IF u.hasMeta THEN u.tenant ELSE u.claimTenant

\* C6: checkValidUser answers not-authorised when the request carries no
\* principal, forbidden for every principal whose tenant differs from the
\* classid of the path, and calls next() (writing nothing) exactly when the
\* principal's tenant equals it.
C6_TenantMatch ==
    [][ chain' = Append(chain, "checkValidUser") =>
          /\ ~user.present => (res' = "notAuthorised" /\ nexts' = nexts)
          /\ (user.present /\ PrincipalTenant(user) # params.classid)
                => (res' = "forbidden" /\ nexts' = nexts)
          /\ (nexts' = nexts + 1 /\ res' = "none" /\ err' = "none")
                <=> (user.present /\ PrincipalTenant(user) = params.classid)
      ]_vars

\* A principal with raw claims of class classB is refused on classA's path.
C6_Witness ==
    /\ Ran("checkValidUser")
    /\ user.present
    /\ user.claimTenant = "classB"
    /\ params.classid = "classA"
    /\ res = "forbidden"

\* ------------------------------------------------------------------- C7

\* C7: verifyProjectAccess, for a project of the requested class: a caller
\* who is not the owner passes exactly when the project is crowd-sourced
\* (and is forbidden otherwise); the owner on their own path always passes.
C7_OwnerOrShared ==
    (Ran("verifyProjectAccess") /\ Found /\ fetched.project.classid = params.classid)
        => /\ ~OwnerOnOwnPath => (Passed <=> fetched.project.isCrowdSourced)
           /\ (~OwnerOnOwnPath /\ ~fetched.project.isCrowdSourced)
                 => res = "forbidden"
           /\ OwnerOnOwnPath => Passed

\* ------------------------------------------------------------------- C8

\* The principal owns the fetched project but the path names another member.
OwnerOnOtherPath ==
    /\ RanProjectStage /\ Found
    /\ user.present
    /\ user.sub = fetched.project.userid
    /\ params.studentid # fetched.project.userid

\* C8 as stated: the owner's token on another member's path is forbidden by
\* both project stages.
C8_MismatchedPathForbidden ==
    OwnerOnOtherPath => res = "forbidden"

\* C8, amended: the owner's token on another member's path is forbidden,
\* except by verifyProjectAccess for a crowd-sourced project of the
\* requested class, which passes and attaches the project.
C8_MismatchedPath ==
    OwnerOnOtherPath =>
        IF /\ Ran("verifyProjectAccess")
           /\ fetched.project.classid = params.classid
           /\ fetched.project.isCrowdSourced
        THEN Passed /\ project = fetched.project
        ELSE res = "forbidden" /\ nexts < Len(chain)

\* verifyProjectOwner refuses the owner of a crowd-sourced project of the
\* requested class who addresses another member's path.
C8_Witness ==
    /\ OwnerOnOtherPath
    /\ Ran("verifyProjectOwner")
    /\ fetched.project.classid = params.classid
    /\ fetched.project.isCrowdSourced
    /\ res = "forbidden"

\* ------------------------------------------------------------------- C9

\* C9: when the store has no project for the id, both project stages answer
\* not-found and do not call next(), whatever the path, the principal and
\* the shared-access flag are.
C9_NotFound ==
    (RanProjectStage /\ fetched.answer = "absent")
        => (res = "notFound" /\ err = "none" /\ nexts < Len(chain))

\* An absent project asked for by an authenticated principal.
C9_Witness ==
    /\ Ran("verifyProjectOwner")
    /\ fetched.answer = "absent"
    /\ user.present
    /\ res = "notFound"

\* ------------------------------------------------------------------ C10

\* C10: requireSupervisor, given a principal with app_metadata, calls next()
\* exactly when its role is supervisor; any other role gets the
\* supervisor-only response and next() is not called.
C10_SupervisorOnly ==
    (Ran("requireSupervisor") /\ user.present /\ user.hasMeta)
        => /\ Passed <=> user.role = "supervisor"
           /\ user.role # "supervisor"
                 => (res = "supervisorOnly" /\ nexts < Len(chain))

\* A site administrator is turned away.
C10_Witness ==
    /\ Ran("requireSupervisor")
    /\ user.present /\ user.hasMeta
    /\ user.role = "siteadmin"
    /\ res = "supervisorOnly"

\* ------------------------------------------------------------------ C11

\* C11: ensureUnmanaged answers forbidden when the fetched tenant policy is
\* managed, calls next() when it is not, and when the fetch fails hands the
\* error to next(err) without writing any response.
C11_ManagedTenant ==
    Ran("ensureUnmanaged") =>
        /\ policy = "managed"
              => (res = "managedForbidden" /\ err = "none" /\ nexts < Len(chain))
        /\ policy = "unmanaged" => Passed
        /\ policy = "fault"
              => (err = "StoreError" /\ res = "none" /\ nexts < Len(chain))

\* The tenant-policy fetch failed for an authenticated request.
C11_Witness ==
    /\ Ran("ensureUnmanaged")
    /\ policy = "fault"
    /\ user.present
    /\ err = "StoreError"
    /\ res = "none"

\* ------------------------------------------------------------------ C12

\* C12: getValuesFromToken applied twice leaves the same app_metadata role
\* and tenant as applied once, and applied to a principal that already has
\* app_metadata it changes nothing (the namespaced claims are not read).
C12_NormalizeIdempotent ==
    LET once  == getValuesFromToken(user)
        twice == getValuesFromToken(once)
    IN  /\ twice = once
        /\ (user.present /\ user.hasMeta) => once = user
        /\ (user.present /\ ~user.hasMeta) =>
              /\ once.hasMeta
              /\ once.role = user.claimRole
              /\ once.tenant = user.claimTenant
        /\ (user.session.kind # "none") =>
              (once.role = "student" /\ once.tenant = CLASS_NAME)

\* A session principal went through two normalising stages and is still a
\* student of the session-users class.
C12_Witness ==
    /\ chain = <<"authenticate", "checkValidUser", "requireSiteAdmin">>
    /\ via = "sessionusers"
    /\ user.present
    /\ user.role = "student"
    /\ user.tenant = CLASS_NAME
    /\ user.claimRole = Undefined

\* ------------------------------------------------------------------ C13

\* authenticate took the session-users branch for this request.
SessionPath == chain # <<>> /\ chain[1] = "authenticate" /\ via = "sessionusers"

\* C13: on the session path authenticate ends in exactly one of: a principal
\* attached and next() called; the not-authorised response written; a
\* failure of the session store forwarded.  next() is never called together
\* with a failure response or without a principal, and no request ends with
\* none of the three.
C13_ExclusiveTotal ==
    (Ran("authenticate") /\ via = "sessionusers") =>
        LET success  == nexts = 1 /\ user.present /\ res = "none" /\ err = "none"
            rejected == res = "notAuthorised" /\ nexts = 0 /\ err = "none"
                           /\ ~user.present
            faulted  == err = "StoreError" /\ session.result = "fault"
                           /\ nexts = 0 /\ res = "none" /\ ~user.present
        IN  /\ success \/ rejected \/ faulted
            /\ ~(success /\ rejected)
            /\ ~(success /\ faulted)
            /\ ~(rejected /\ faulted)

\* ------------------------------------------------------------------ C14

\* C14: requireSiteAdmin normalises the claims itself: for a principal that
\* carries only the namespaced claims it calls next() exactly when the role
\* claim is siteadmin, and for any other role it writes the forbidden
\* response without calling next().
C14_SiteAdminStandalone ==
    [][ (chain' = Append(chain, "requireSiteAdmin") /\ user.present /\ ~user.hasMeta)
          => /\ (nexts' = nexts + 1 /\ res' = "none" /\ err' = "none")
                   <=> user.claimRole = "siteadmin"
             /\ user.claimRole # "siteadmin"
                   => (res' = "siteadminForbidden" /\ nexts' = nexts /\ err' = "none")
             /\ user'.hasMeta
             /\ user'.role = user.claimRole
      ]_vars

\* Straight after authentication, a principal whose role claim is siteadmin
\* passes requireSiteAdmin.
C14_Witness ==
    /\ chain = <<"authenticate", "requireSiteAdmin">>
    /\ via = "auth0"
    /\ user.claimRole = "siteadmin"
    /\ user.role = "siteadmin"
    /\ Passed

\* ------------------------------------------------------------------ C15

\* The token of a Bearer header does not decode to a usable {id, token}
\* object: there is no token part, jwtDecode throws, or the payload is not
\* an object.
UnusablePayload ==
    jwtDecode(Index(split(headers.authorization), 1)).kind
        \in {"throw", "null", "primitive"}

\* C15: on the session path a token whose payload cannot be decoded into a
\* usable {id, token} object ends in the not-authorised response: nothing
\* is handed to next(err) and the request is not authenticated.
C15_DecodeFailureRejected ==
    (Ran("authenticate") /\ via = "sessionusers" /\ UnusablePayload)
        => (res = "notAuthorised" /\ err = "none" /\ nexts = 0 /\ ~user.present)

\* ------------------------------------------------------------------ C16

\* The step is a run of one of the two project stages.
ProjectStageStep ==
    \/ chain' = Append(chain, "verifyProjectOwner")
    \/ chain' = Append(chain, "verifyProjectAccess")

\* C16: when checkSessionToken or store.getProject fails, the stage hands
\* that error to next(err): it writes no response, attaches no principal
\* and no project, and does not call next() as a success.
C16_FaultsForwarded ==
    [][ /\ (chain' = Append(chain, "authenticate") /\ session'.result = "fault")
            => /\ err' = "StoreError"
               /\ res' = "none"
               /\ nexts' = nexts
               /\ user' = user /\ ~user'.present
               /\ project' = project
        /\ (ProjectStageStep /\ fetched'.answer = "fault")
            => /\ err' = "StoreError"
               /\ res' = "none"
               /\ nexts' = nexts
               /\ user' = user
               /\ project' = project
      ]_vars

\* The session store failed while a decodable session token was checked.
C16_Witness ==
    /\ Ran("authenticate") /\ via = "sessionusers"
    /\ session.called /\ session.result = "fault"
    /\ session.token = "s1"
    /\ err = "StoreError"

\* ------------------------------------------------------------------ C17

\* C17: every stage, on every input, does exactly one of: call next(),
\* write a response, hand an error to next(err); and a stage runs only
\* while no earlier stage has written a response or forwarded an error, so
\* nothing runs after a rejection or a fault.
C17_StageProtocol ==
    [][ chain' # chain =>
          LET continued == nexts' = nexts + 1 /\ res' = "none" /\ err' = "none"
              responded == nexts' = nexts /\ res' # "none" /\ err' = "none"
              faulted   == nexts' = nexts /\ res' = "none" /\ err' # "none"
          IN  /\ res = "none" /\ err = "none" /\ nexts = Len(chain)
              /\ Len(chain') = Len(chain) + 1
              /\ continued \/ responded \/ faulted
      ]_vars

\* Two stages passed and the third rejected the request.
C17_Witness ==
    /\ chain = <<"authenticate", "checkValidUser", "verifyProjectOwner">>
    /\ nexts = 2
    /\ res = "forbidden"
    /\ err = "none"

\* ------------------------------------------------------------------ C18

\* C18: a project stage attaches the project to the request exactly when it
\* calls next(), and the project attached is the one store.getProject
\* returned for the path's project id; on not-found, forbidden or a store
\* failure req.project is left as it was, and req.user is never changed.
C18_AttachOnPass ==
    [][ ProjectStageStep =>
          /\ user' = user /\ params' = params /\ headers' = headers
          /\ IF nexts' = nexts + 1
             THEN /\ fetched'.answer = "found"
                  /\ project' = fetched'.project
                  /\ project'.id = params.projectid
             ELSE project' = project
      ]_vars

\* A classmate is let into a crowd-sourced project, which is attached.
C18_Witness ==
    /\ Ran("verifyProjectAccess") /\ Found /\ Passed
    /\ user.present /\ ~OwnerOnOwnPath
    /\ project.present
    /\ project = fetched.project

\* ------------------------------------------------------------------ C19

\* The request went through authenticate, checkValidUser and one of the
\* project stages, and all three called next(): the route handler runs.
HandlerReached ==
    /\ \/ chain = <<"authenticate", "checkValidUser", "verifyProjectOwner">>
       \/ chain = <<"authenticate", "checkValidUser", "verifyProjectAccess">>
    /\ Passed

\* C19: whenever the handler behind authenticate, checkValidUser and a
\* project stage is reached, the principal's tenant, the classid of the path
\* and the class of the attached project are one and the same.
C19_EndToEndTenant ==
    HandlerReached =>
        /\ user.present
        /\ user.tenant = params.classid
        /\ project.present
        /\ project.classid = params.classid
        /\ project.classid = user.tenant

\* An Auth0 principal of classA reaches the handler with a classmate's
\* crowd-sourced project of classA.
C19_Witness ==
    /\ HandlerReached
    /\ via = "auth0"
    /\ user.tenant = "classA"
    /\ project.classid = "classA"
    /\ project.userid # user.sub

\* ------------------------------------------------------------------ C20

\* C20: in the session-users class, behind authenticate, checkValidUser and
\* verifyProjectOwner, a caller whose session was verified for the path's
\* studentid reaches the handler only with a project owned by that
\* studentid, whatever id the decoded payload claims: a payload id that
\* differs from the path's studentid never gets through.
C20_SessionSubject ==
    (/\ chain = <<"authenticate", "checkValidUser", "verifyProjectOwner">>
     /\ SessionPath
     /\ Passed)
        => /\ session.result = "true"
           /\ session.studentid = params.studentid
           /\ project.present
           /\ project.userid = params.studentid
           /\ user.sub = params.studentid

\* A session verified for u1 whose payload names u2 asks for u2's project in
\* the session-users class and is refused.
C20_Witness ==
    /\ chain = <<"authenticate", "checkValidUser", "verifyProjectOwner">>
    /\ SessionPath
    /\ session.result = "true"
    /\ params.studentid = "u1"
    /\ user.sub = "u2"
    /\ Found
    /\ fetched.project.userid = "u2"
    /\ fetched.project.classid = CLASS_NAME
    /\ res = "forbidden"
    /\ ~project.present

====
